---- MODULE Spec2Model ----
(***************************************************************************)
(* The two CSV audit scripts of the repository:                            *)
(*   check_csv_urls.py     analyze_csv over three sources, then a summary  *)
(*   check_missing_urls.py the same loop inlined over the APR source       *)
(* A str is a sequence of one-character strings; a printed line is a       *)
(* record [label, n, text] holding the literal of the f-string and the     *)
(* values substituted into it.                                             *)
(***************************************************************************)
EXTENDS Integers, Sequences, FiniteSets, TLC

VARIABLES
    script,            \* which of the two scripts the process runs
    files,             \* the file system: source index -> file (static input)
    pc,                \* position of the process in the script
    src,               \* index of the source being analysed (the filepath argument)
    pos,               \* rows the csv reader has yielded so far from the open file
    handles,           \* sources whose file handle is open
    total_rows,
    rows_with_skus,
    rows_with_urls,
    rows_with_both,
    missing_url_skus,
    stats,             \* dicts returned by analyze_csv: apr_stats, artec_stats, bilstein_stats
    out,               \* lines printed to standard output
    err                \* the uncaught exception that ended the process, or "none"

vars == <<script, files, pc, src, pos, handles, total_rows, rows_with_skus,
          rows_with_urls, rows_with_both, missing_url_skus, stats, out, err>>

-----------------------------------------------------------------------------
(* Bounds of the input universes *)

MaxRows == 2
MaxListRows == 10
MaxMainRows == 1

(* Program constants *)

ListLimit == 10

Path ==
    << <<"attached_assets/processed_APR Performance BAI 1.csv">>,
       <<"attached_assets/processed_ARTEC BAI 1.csv">>,
       <<"attached_assets/processed_Bilstein BAI 1.csv">> >>

SKU == "SKU"
OriginURL == "Origin URL"

Whitespace == {" ", "\t", "\n"}

-----------------------------------------------------------------------------
(* Python library behaviour the scripts rely on *)

RECURSIVE lstrip(_)
lstrip(s) ==
    IF s = <<>> THEN s
    ELSE IF Head(s) \in Whitespace THEN lstrip(Tail(s)) ELSE s

RECURSIVE rstrip(_)
rstrip(s) ==
    IF s = <<>> THEN s
    ELSE IF s[Len(s)] \in Whitespace THEN rstrip(SubSeq(s, 1, Len(s) - 1)) ELSE s

\* (mutant) only the leading whitespace removed
strip_left(s) == lstrip(s)

\* str.strip(): leading and trailing whitespace removed, the inside kept
strip(s) == rstrip(lstrip(s))

\* truth value of a str: non-empty
Truthy(s) == s /= <<>>

Range(f) == {f[i] : i \in DOMAIN f}

\* A value of the dict that csv.DictReader builds, or the default of dict.get.
\* isNone marks None, the restval DictReader stores for a field of the header
\* that a short row has no value for.
Str(s) == [isNone |-> FALSE, s |-> s]
None == [isNone |-> TRUE, s |-> <<>>]

\* row.get(key, ''), row being the dict DictReader builds from a header and the
\* values of one line: zip(fieldnames, values), then restval for the fields left.
Get(header, values, key) ==
    IF key \notin Range(header) THEN Str(<<>>)
    ELSE LET i == CHOOSE j \in DOMAIN header :
                      /\ header[j] = key
                      /\ \A k \in DOMAIN header : header[k] = key => k <= j
         IN IF i <= Len(values) THEN Str(values[i]) ELSE None

\* the exit of a with block over the file of source i, normal or exceptional
Release(h, i) == h \ {i}

\* the next item of the reader over file f after n rows were yielded
HasRow(f, n) == n < Len(f.rows)
DecodeFails(f, n) == n >= Len(f.rows) /\ f.status = "corrupt"

-----------------------------------------------------------------------------
(* Printed lines *)

Line(label, n, text) == [label |-> label, n |-> n, text |-> text]

\* lines 39-43 of check_csv_urls.py, lines 35-39 of check_missing_urls.py
CounterLines(t, s, u, b, missing) ==
    << Line("Total rows: ", t, <<>>),
       Line("Rows with SKUs: ", s, <<>>),
       Line("Rows with URLs: ", u, <<>>),
       Line("Rows with both SKU and URL: ", b, <<>>),
       Line("Rows with SKU but missing URL: ", Len(missing), <<>>) >>

NumberedLines(missing) ==
    [i \in 1..Len(missing) |-> Line(". ", i, missing[i])]

\* (mutant) a list of ListLimit SKUs still enumerated
Listing_inclusive(missing) ==
    IF Truthy(missing) /\ Len(missing) <= ListLimit
    THEN <<Line("\nSKUs missing URLs:", 0, <<>>)>> \o NumberedLines(missing)
    ELSE IF Truthy(missing)
         THEN <<Line("\nFound  SKUs missing URLs (too many to list)", Len(missing), <<>>)>>
         ELSE <<>>

\* lines 45-50 of check_csv_urls.py
Listing(missing) ==
    IF Truthy(missing) /\ Len(missing) < ListLimit
    THEN <<Line("\nSKUs missing URLs:", 0, <<>>)>> \o NumberedLines(missing)
    ELSE IF Truthy(missing)
         THEN <<Line("\nFound  SKUs missing URLs (too many to list)", Len(missing), <<>>)>>
         ELSE <<>>

\* lines 41-44 of check_missing_urls.py
ScriptListing(missing) ==
    IF Truthy(missing)
    THEN <<Line("\nSKUs missing URLs:", 0, <<>>)>> \o NumberedLines(missing)
    ELSE <<>>

-----------------------------------------------------------------------------
(* check_csv_urls.py *)

\* lines 60-62 entering analyze_csv, line 5
Call ==
    /\ script = "check_csv_urls" /\ pc = "main"
    /\ src < Len(Path)
    /\ src' = src + 1
    /\ out' = Append(out, Line("\nAnalyzing: ", 0, Path[src + 1]))
    /\ pc' = "open"
    /\ UNCHANGED <<script, files, pos, handles, total_rows, rows_with_skus,
                   rows_with_urls, rows_with_both, missing_url_skus, stats, err>>

\* (mutant) the failure to open is swallowed and the source counts as empty
Open_swallowed ==
    /\ script = "check_csv_urls" /\ pc = "open"
    /\ IF files[src].status = "missing"
       THEN /\ pc' = "main"
            /\ stats' = Append(stats, [total |-> 0, with_skus |-> 0,
                                       with_urls |-> 0, with_both |-> 0])
            /\ UNCHANGED <<handles, pos, total_rows, rows_with_skus, rows_with_urls,
                           rows_with_both, missing_url_skus>>
       ELSE /\ handles' = handles \cup {src}
            /\ pos' = 0
            /\ total_rows' = 0
            /\ rows_with_skus' = 0
            /\ rows_with_urls' = 0
            /\ rows_with_both' = 0
            /\ missing_url_skus' = <<>>
            /\ pc' = "loop"
            /\ UNCHANGED stats
    /\ UNCHANGED <<script, files, src, out, err>>

\* (mutant) the missing list is shared by the calls instead of starting empty
Open_stale ==
    /\ script = "check_csv_urls" /\ pc = "open"
    /\ IF files[src].status = "missing"
       THEN /\ pc' = "crashed"
            /\ err' = "FileNotFoundError"
            /\ UNCHANGED <<handles, pos, total_rows, rows_with_skus, rows_with_urls,
                           rows_with_both>>
       ELSE /\ handles' = handles \cup {src}
            /\ pos' = 0
            /\ total_rows' = 0
            /\ rows_with_skus' = 0
            /\ rows_with_urls' = 0
            /\ rows_with_both' = 0
            /\ pc' = "loop"
            /\ UNCHANGED err
    /\ UNCHANGED <<script, files, src, stats, out, missing_url_skus>>

\* lines 8-17: open() raises for a missing file, else the counters start at zero
Open ==
    /\ script = "check_csv_urls" /\ pc = "open"
    /\ IF files[src].status = "missing"
       THEN /\ pc' = "crashed"
            /\ err' = "FileNotFoundError"
            /\ UNCHANGED <<handles, pos, total_rows, rows_with_skus, rows_with_urls,
                           rows_with_both, missing_url_skus>>
       ELSE /\ handles' = handles \cup {src}
            /\ pos' = 0
            /\ total_rows' = 0
            /\ rows_with_skus' = 0
            /\ rows_with_urls' = 0
            /\ rows_with_both' = 0
            /\ missing_url_skus' = <<>>
            /\ pc' = "loop"
            /\ UNCHANGED err
    /\ UNCHANGED <<script, files, src, stats, out>>

\* (mutant) if sku or url
sku_or_url(sku, url) == Truthy(sku) \/ Truthy(url)

\* line 32: if sku and url
sku_and_url(sku, url) == Truthy(sku) /\ Truthy(url)

\* (mutant) if sku
sku_only(sku, url) == Truthy(sku)

\* line 35: if sku and not url
sku_and_not_url(sku, url) == Truthy(sku) /\ ~Truthy(url)

\* lines 20-36: one turn of the for loop
AnalyzeRow ==
    /\ script = "check_csv_urls" /\ pc = "loop"
    /\ LET f == files[src] IN
       IF HasRow(f, pos)
       THEN LET g_sku == Get(f.header, f.rows[pos + 1], SKU)
                g_url == Get(f.header, f.rows[pos + 1], OriginURL)
                sku == strip(g_sku.s)
                url == strip(g_url.s)
            IN /\ pos' = pos + 1
               /\ total_rows' = total_rows + 1
               /\ IF g_sku.isNone \/ g_url.isNone
                  THEN \* None has no strip(): the with block releases the file
                       /\ pc' = "crashed"
                       /\ err' = "AttributeError"
                       /\ handles' = Release(handles, src)
                       /\ UNCHANGED <<rows_with_skus, rows_with_urls, rows_with_both,
                                      missing_url_skus>>
                  ELSE /\ rows_with_skus' =
                              IF Truthy(sku) THEN rows_with_skus + 1 ELSE rows_with_skus
                       /\ rows_with_urls' =
                              IF Truthy(url) THEN rows_with_urls + 1 ELSE rows_with_urls
                       /\ rows_with_both' =
                              IF sku_and_url(sku, url)
                              THEN rows_with_both + 1 ELSE rows_with_both
                       /\ missing_url_skus' =
                              IF sku_and_not_url(sku, url)
                              THEN Append(missing_url_skus, sku) ELSE missing_url_skus
                       /\ UNCHANGED <<pc, err, handles>>
       ELSE IF DecodeFails(f, pos)
       THEN /\ pc' = "crashed"
            /\ err' = "UnicodeDecodeError"
            /\ handles' = Release(handles, src)
            /\ UNCHANGED <<pos, total_rows, rows_with_skus, rows_with_urls,
                           rows_with_both, missing_url_skus>>
       ELSE /\ pc' = "report"
            /\ UNCHANGED <<pos, err, handles, total_rows, rows_with_skus,
                           rows_with_urls, rows_with_both, missing_url_skus>>
    /\ UNCHANGED <<script, files, src, stats, out>>

\* lines 39-50
Report ==
    /\ script = "check_csv_urls" /\ pc = "report"
    /\ out' = out \o CounterLines(total_rows, rows_with_skus, rows_with_urls,
                                  rows_with_both, missing_url_skus)
                  \o Listing(missing_url_skus)
    /\ pc' = "return"
    /\ UNCHANGED <<script, files, src, pos, handles, total_rows, rows_with_skus,
                   rows_with_urls, rows_with_both, missing_url_skus, stats, err>>

\* lines 52-57 and the exit of the with block of line 8
Return ==
    /\ script = "check_csv_urls" /\ pc = "return"
    /\ stats' = Append(stats, [total |-> total_rows,
                               with_skus |-> rows_with_skus,
                               with_urls |-> rows_with_urls,
                               with_both |-> rows_with_both])
    /\ handles' = Release(handles, src)
    /\ pc' = "main"
    /\ UNCHANGED <<script, files, src, pos, total_rows, rows_with_skus,
                   rows_with_urls, rows_with_both, missing_url_skus, out, err>>

\* (mutant) a pasted line that kept the wrong key
Totals_slip(apr_stats, artec_stats, bilstein_stats) ==
    [total_records |-> apr_stats.total + artec_stats.total + bilstein_stats.total,
     total_with_skus |->
         apr_stats.with_skus + artec_stats.with_skus + bilstein_stats.with_skus,
     total_with_urls |->
         apr_stats.with_urls + artec_stats.with_urls + bilstein_stats.with_skus,
     total_with_both |->
         apr_stats.with_both + artec_stats.with_both + bilstein_stats.with_both]

\* lines 65-68: the grand totals of the three returned dicts
Totals(apr_stats, artec_stats, bilstein_stats) ==
    [total_records |-> apr_stats.total + artec_stats.total + bilstein_stats.total,
     total_with_skus |->
         apr_stats.with_skus + artec_stats.with_skus + bilstein_stats.with_skus,
     total_with_urls |->
         apr_stats.with_urls + artec_stats.with_urls + bilstein_stats.with_urls,
     total_with_both |->
         apr_stats.with_both + artec_stats.with_both + bilstein_stats.with_both]

\* (mutant) the line of the URLs left out
SummaryLines_short(t) ==
    << Line("\n=== SUMMARY ===", 0, <<>>),
       Line("Total records across all CSVs: ", t.total_records, <<>>),
       Line("Total records with SKUs: ", t.total_with_skus, <<>>),
       Line("Total records with both SKU and URL: ", t.total_with_both, <<>>) >>

\* lines 70-74
SummaryLines(t) ==
    << Line("\n=== SUMMARY ===", 0, <<>>),
       Line("Total records across all CSVs: ", t.total_records, <<>>),
       Line("Total records with SKUs: ", t.total_with_skus, <<>>),
       Line("Total records with URLs: ", t.total_with_urls, <<>>),
       Line("Total records with both SKU and URL: ", t.total_with_both, <<>>) >>

\* lines 65-74, reached once the three calls of lines 60-62 have returned
Summary ==
    /\ script = "check_csv_urls" /\ pc = "main"
    /\ src = Len(Path)
    /\ out' = out \o SummaryLines(Totals(stats[1], stats[2], stats[3]))
    /\ pc' = "done"
    /\ UNCHANGED <<script, files, src, pos, handles, total_rows, rows_with_skus,
                   rows_with_urls, rows_with_both, missing_url_skus, stats, err>>

-----------------------------------------------------------------------------
(* check_missing_urls.py *)

\* lines 4-13
ScriptOpen ==
    /\ script = "check_missing_urls" /\ pc = "open"
    /\ IF files[src].status = "missing"
       THEN /\ pc' = "crashed"
            /\ err' = "FileNotFoundError"
            /\ UNCHANGED <<handles, pos, total_rows, rows_with_skus, rows_with_urls,
                           rows_with_both, missing_url_skus>>
       ELSE /\ handles' = handles \cup {src}
            /\ pos' = 0
            /\ total_rows' = 0
            /\ rows_with_skus' = 0
            /\ rows_with_urls' = 0
            /\ rows_with_both' = 0
            /\ missing_url_skus' = <<>>
            /\ pc' = "loop"
            /\ UNCHANGED err
    /\ UNCHANGED <<script, files, src, stats, out>>

\* lines 16-32: one turn of the for loop
ScriptRow ==
    /\ script = "check_missing_urls" /\ pc = "loop"
    /\ LET f == files[src] IN
       IF HasRow(f, pos)
       THEN LET g_sku == Get(f.header, f.rows[pos + 1], SKU)
                g_url == Get(f.header, f.rows[pos + 1], OriginURL)
                sku == strip(g_sku.s)
                url == strip(g_url.s)
            IN /\ pos' = pos + 1
               /\ total_rows' = total_rows + 1
               /\ IF g_sku.isNone \/ g_url.isNone
                  THEN /\ pc' = "crashed"
                       /\ err' = "AttributeError"
                       /\ handles' = Release(handles, src)
                       /\ UNCHANGED <<rows_with_skus, rows_with_urls, rows_with_both,
                                      missing_url_skus>>
                  ELSE /\ rows_with_skus' =
                              IF Truthy(sku) THEN rows_with_skus + 1 ELSE rows_with_skus
                       /\ rows_with_urls' =
                              IF Truthy(url) THEN rows_with_urls + 1 ELSE rows_with_urls
                       /\ rows_with_both' =
                              IF Truthy(sku) /\ Truthy(url)
                              THEN rows_with_both + 1 ELSE rows_with_both
                       /\ missing_url_skus' =
                              IF Truthy(sku) /\ ~Truthy(url)
                              THEN Append(missing_url_skus, sku) ELSE missing_url_skus
                       /\ UNCHANGED <<pc, err, handles>>
       ELSE IF DecodeFails(f, pos)
       THEN /\ pc' = "crashed"
            /\ err' = "UnicodeDecodeError"
            /\ handles' = Release(handles, src)
            /\ UNCHANGED <<pos, total_rows, rows_with_skus, rows_with_urls,
                           rows_with_both, missing_url_skus>>
       ELSE /\ pc' = "report"
            /\ UNCHANGED <<pos, err, handles, total_rows, rows_with_skus,
                           rows_with_urls, rows_with_both, missing_url_skus>>
    /\ UNCHANGED <<script, files, src, stats, out>>

\* lines 35-44 and the exit of the with block of line 4
ScriptReport ==
    /\ script = "check_missing_urls" /\ pc = "report"
    /\ out' = out \o CounterLines(total_rows, rows_with_skus, rows_with_urls,
                                  rows_with_both, missing_url_skus)
                  \o ScriptListing(missing_url_skus)
    /\ handles' = Release(handles, src)
    /\ pc' = "done"
    /\ UNCHANGED <<script, files, src, pos, total_rows, rows_with_skus,
                   rows_with_urls, rows_with_both, missing_url_skus, stats, err>>

-----------------------------------------------------------------------------
(* Input universes and specifications *)

SeqsUpTo(S, n) == UNION {[1..k -> S] : k \in 0..n}

\* a source: whether open() finds it ("missing"), whether its bytes decode to the
\* end ("corrupt": the read after the last row raises), its header line, and the
\* non-blank data lines the csv reader yields, each a sequence of values
File(status, header, rows) == [status |-> status, header |-> header, rows |-> rows]

MissingFile == File("missing", <<>>, <<>>)

FullHeader == <<SKU, OriginURL>>

\* the process starts at the top of the script it runs, nothing printed or opened
Start(s, fs) ==
    /\ script = s
    /\ files = fs
    /\ pc = IF s = "check_csv_urls" THEN "main" ELSE "open"
    /\ src = IF s = "check_csv_urls" THEN 0 ELSE 1
    /\ pos = 0
    /\ handles = {}
    /\ total_rows = 0
    /\ rows_with_skus = 0
    /\ rows_with_urls = 0
    /\ rows_with_both = 0
    /\ missing_url_skus = <<>>
    /\ stats = <<>>
    /\ out = <<>>
    /\ err = "none"

Next ==
    \/ Call
    \/ Open
    \/ AnalyzeRow
    \/ Report
    \/ Return
    \/ Summary
    \/ ScriptOpen
    \/ ScriptRow
    \/ ScriptReport

\* Spec: three small sources of any availability
MainRows == { <<<<"A">>, <<"x">>>>, <<<<"B">>, <<>>>>, <<<<>>, <<"y">>>>, <<<<"A">>>> }

MainFiles ==
    {MissingFile} \cup
    {File(st, FullHeader, rows) : st \in {"ok", "corrupt"}, rows \in SeqsUpTo(MainRows, MaxMainRows)}

Init ==
    \/ \E fs \in [1..Len(Path) -> MainFiles] : Start("check_csv_urls", fs)
    \/ \E f \in MainFiles : Start("check_missing_urls", <<f>>)

Spec == Init /\ [][Next]_vars

\* SpecRows: one source of rows of every shape (headers lacking a column, short
\* and long rows, padded and blank values), the other sources header only
Values == { <<>>, <<" ">>, <<" ", "A">>, <<"A", " ", "B", "\t">> }

RichRows ==
    {<<v>> : v \in {<<>>, <<" ", "A">>}}
    \cup {<<v, w>> : v \in Values, w \in Values}
    \cup {<<<<"A">>, <<"x">>, <<"extra">>>>}

RichHeaders ==
    { <<SKU, OriginURL>>, <<OriginURL, SKU>>, <<SKU>>, <<"Name", OriginURL>> }

ExampleFile ==
    File("ok", FullHeader,
         << <<<<"A">>, <<"x">>>>, <<<<"B">>, <<>>>>, <<<<>>, <<"y">>>>, <<<<>>, <<>>>> >>)

RichFiles ==
    {ExampleFile} \cup
    {File("ok", h, rows) : h \in RichHeaders, rows \in SeqsUpTo(RichRows, MaxRows)}

EmptyFile == File("ok", FullHeader, <<>>)

\* the sources of check_csv_urls.py: one drawn from Big, the others header only
OneBig(Big) ==
    {[i \in 1..Len(Path) |-> IF i = k THEN b ELSE EmptyFile] :
        k \in 1..Len(Path), b \in Big}

InitRows ==
    \/ \E fs \in OneBig(RichFiles) : Start("check_csv_urls", fs)
    \/ \E f \in RichFiles : Start("check_missing_urls", <<f>>)

SpecRows == InitRows /\ [][Next]_vars

\* SpecList: one long source, so that the missing list passes the listing limit
ListRows == { <<<<" ", "A">>, <<>>>>, <<<<"B">>, <<" ">>>> }

ListFiles ==
    {File("ok", FullHeader, pre \o rows) :
        pre \in {<<>>, << <<<<"C">>, <<"x">>>> >>}, rows \in SeqsUpTo(ListRows, MaxListRows)}

InitList ==
    \/ \E fs \in OneBig(ListFiles) : Start("check_csv_urls", fs)
    \/ \E f \in ListFiles : Start("check_missing_urls", <<f>>)

SpecList == InitList /\ [][Next]_vars

-----------------------------------------------------------------------------
(* What the input says, stated without reference to the scripts *)

Min(S) == CHOOSE x \in S : \A y \in S : x <= y
Max(S) == CHOOSE x \in S : \A y \in S : x >= y

\* s without its leading and trailing whitespace
Trimmed(s) ==
    LET inked == {i \in 1..Len(s) : s[i] \notin Whitespace}
    IN IF inked = {} THEN <<>> ELSE SubSeq(s, Min(inked), Max(inked))

\* the text row i of file f holds under the column named key; a row or a header
\* without that field holds the empty text
Cell(f, i, key) ==
    LET at == {j \in DOMAIN f.header \cap DOMAIN f.rows[i] : f.header[j] = key}
    IN IF at = {} THEN <<>> ELSE f.rows[i][CHOOSE j \in at : TRUE]

SkuOf(f, i) == Trimmed(Cell(f, i, SKU))
UrlOf(f, i) == Trimmed(Cell(f, i, OriginURL))

WithSku(f, n) == {i \in 1..n : SkuOf(f, i) /= <<>>}
WithUrl(f, n) == {i \in 1..n : UrlOf(f, i) /= <<>>}

\* trimmed SKUs of the rows among the first n with a SKU and no URL, in input order
RECURSIVE MissingOf(_, _)
MissingOf(f, n) ==
    IF n = 0 THEN <<>>
    ELSE IF n \in WithSku(f, n) \ WithUrl(f, n)
         THEN Append(MissingOf(f, n - 1), SkuOf(f, n))
         ELSE MissingOf(f, n - 1)

\* the counters agree with the first n rows of f
Matches(f, n) ==
    /\ total_rows = n
    /\ rows_with_skus = Cardinality(WithSku(f, n))
    /\ rows_with_urls = Cardinality(WithUrl(f, n))
    /\ rows_with_both = Cardinality(WithSku(f, n) \cap WithUrl(f, n))
    /\ missing_url_skus = MissingOf(f, n)

StatsOf(f) ==
    LET n == Len(f.rows)
    IN [total |-> n,
        with_skus |-> Cardinality(WithSku(f, n)),
        with_urls |-> Cardinality(WithUrl(f, n)),
        with_both |-> Cardinality(WithSku(f, n) \cap WithUrl(f, n))]

\* row i of f has a value for every designated column its header names
WellFormed(f, i) ==
    \A j \in DOMAIN f.header :
        f.header[j] \in {SKU, OriginURL} => j <= Len(f.rows[i])

\* the loop of the current pass is running / has ended without an exception
InLoop == pc = "loop"
PassEnded ==
    \/ pc \in {"report", "return"}
    \/ script = "check_missing_urls" /\ pc = "done"

-----------------------------------------------------------------------------
(* Claims *)

\* C1: after every processed row of either script, with_both <= with_skus <= total
\* and with_both <= with_urls <= total.
C1_CounterOrder ==
    /\ rows_with_both <= rows_with_skus /\ rows_with_skus <= total_rows
    /\ rows_with_both <= rows_with_urls /\ rows_with_urls <= total_rows

C1_Witness ==
    /\ InLoop /\ pos = 2
    /\ rows_with_both = 1 /\ rows_with_skus = 2 /\ rows_with_urls = 1

\* C2: after every processed row the missing list is with_skus - with_both long,
\* and every printed 'Rows with SKU but missing URL' number is the printed
\* 'Rows with SKUs' number minus the printed 'Rows with both SKU and URL' number.
C2_MissingLength ==
    /\ Len(missing_url_skus) = rows_with_skus - rows_with_both
    /\ \A k \in 1..Len(out) :
          out[k].label = "Rows with SKU but missing URL: " =>
              /\ k > 3
              /\ out[k - 3].label = "Rows with SKUs: "
              /\ out[k - 1].label = "Rows with both SKU and URL: "
              /\ out[k].n = out[k - 3].n - out[k - 1].n

C2_Witness ==
    /\ Len(out) > 0
    /\ out[Len(out)].label = "Rows with SKU but missing URL: "
    /\ out[Len(out)].n = 0
    /\ rows_with_both = 1 /\ rows_with_skus = 1 /\ total_rows = 2

\* C3: a pass that ends has counted every row of its source: total = n, with_skus,
\* with_urls and with_both count the rows whose trimmed SKU, URL, both are
\* non-empty, and the missing list holds the trimmed SKUs of the rows with a SKU and
\* no URL, in input order; the dict analyze_csv returns carries the same counts.
\* Only a row that lacks a value for a column of the header stops a pass early.
C3_PassResult ==
    /\ InLoop => Matches(files[src], pos)
    /\ err = "AttributeError" => ~WellFormed(files[src], pos)
    /\ PassEnded => pos = Len(files[src].rows) /\ Matches(files[src], pos)
    /\ \A i \in 1..Len(stats) : stats[i] = StatsOf(files[i])

C3_Witness ==
    /\ PassEnded /\ files[src] = ExampleFile
    /\ total_rows = 4 /\ rows_with_skus = 2 /\ rows_with_urls = 2
    /\ rows_with_both = 1 /\ missing_url_skus = << <<"B">> >>

\* C4: the loop raises no error for any row the reader yields; a row that lacks a
\* designated field counts as having the empty string there.
C4_RowsNeverRaise ==
    /\ err /= "AttributeError"
    /\ (InLoop \/ PassEnded) => Matches(files[src], pos)

-----------------------------------------------------------------------------
(* Reading standard output *)

IsAnalyzing(k, i) == out[k].label = "\nAnalyzing: " /\ out[k].text = Path[i]
Analyzed(i) == \E k \in 1..Len(out) : IsAnalyzing(k, i)
AnalyzingAt(i) == CHOOSE k \in 1..Len(out) : IsAnalyzing(k, i)

IsSummary(k) == out[k].label = "\n=== SUMMARY ==="
HasSummary == \E k \in 1..Len(out) : IsSummary(k)
SummaryAt == CHOOSE k \in 1..Len(out) : IsSummary(k)

\* the lines printed for source i by check_csv_urls.py, after its 'Analyzing' line
BodyEnd(i) ==
    IF i < Len(Path) /\ Analyzed(i + 1) THEN AnalyzingAt(i + 1) - 1
    ELSE IF HasSummary THEN SummaryAt - 1
    ELSE Len(out)
Body(i) == SubSeq(out, AnalyzingAt(i) + 1, BodyEnd(i))

CounterLabels ==
    << "Total rows: ", "Rows with SKUs: ", "Rows with URLs: ",
       "Rows with both SKU and URL: ", "Rows with SKU but missing URL: " >>

IsNumbered(l) == l.label = ". "

\* C5: in analyze_csv the listing block that follows the five counter lines depends
\* on the missing count m alone: nothing for m = 0; the header and the m numbered
\* lines, in input order, for 1 <= m < ListLimit; one 'too many to list' line with
\* the count and no numbered line for m >= ListLimit.
C5_ListingRule ==
    (script = "check_csv_urls" /\ pc = "return") =>
        LET report == Body(src)
            m == report[5].n
            block == SubSeq(report, 6, Len(report))
            missing == MissingOf(files[src], Len(files[src].rows))
        IN /\ Len(report) >= 5
           /\ \A c \in 1..5 : report[c].label = CounterLabels[c]
           /\ m = Len(missing)
           /\ m = 0 => block = <<>>
           /\ (1 <= m /\ m < ListLimit) =>
                 /\ Len(block) = m + 1
                 /\ block[1] = Line("\nSKUs missing URLs:", 0, <<>>)
                 /\ \A i \in 1..m : block[i + 1] = Line(". ", i, missing[i])
           /\ m >= ListLimit =>
                 block = <<Line("\nFound  SKUs missing URLs (too many to list)", m, <<>>)>>

C5_Witness ==
    /\ script = "check_csv_urls" /\ pc = "return"
    /\ Len(missing_url_skus) >= ListLimit
    /\ \E i \in 1..Len(missing_url_skus) : missing_url_skus[i] /= missing_url_skus[1]

\* C6: check_missing_urls.py reports the count only, and enumerates no SKU, when
\* ListLimit or more rows have a SKU and no URL.
C6_ScriptCountOnly ==
    (script = "check_missing_urls" /\ pc = "done"
        /\ Len(missing_url_skus) >= ListLimit) =>
            \A k \in 1..Len(out) : ~IsNumbered(out[k])

\* the sum of field g over the dicts of the sources in S, taken in no fixed order
RECURSIVE SumOver(_, _)
SumOver(S, g) ==
    IF S = {} THEN 0
    ELSE LET i == CHOOSE x \in S : TRUE
         IN StatsOf(files[i])[g] + SumOver(S \ {i}, g)

\* C7: each grand total of the summary is the sum of that counter over the three
\* returned dicts, whatever the order the sources are taken in; the summary carries
\* no missing-SKU list.
C7_GrandTotals ==
    (script = "check_csv_urls" /\ pc = "done") =>
        LET k == SummaryAt
            all == 1..Len(Path)
        IN /\ Len(stats) = Len(Path)
           /\ out[k + 1].n = stats[1].total + stats[2].total + stats[3].total
           /\ out[k + 2].n = stats[1].with_skus + stats[2].with_skus + stats[3].with_skus
           /\ out[k + 3].n = stats[1].with_urls + stats[2].with_urls + stats[3].with_urls
           /\ out[k + 4].n = stats[1].with_both + stats[2].with_both + stats[3].with_both
           /\ out[k + 1].n = SumOver(all, "total")
           /\ out[k + 2].n = SumOver(all, "with_skus")
           /\ out[k + 3].n = SumOver(all, "with_urls")
           /\ out[k + 4].n = SumOver(all, "with_both")
           /\ \A p \in Permutations(all) :
                 Totals(stats[p[1]], stats[p[2]], stats[p[3]])
                     = Totals(stats[1], stats[2], stats[3])
           /\ \A j \in (k + 1)..Len(out) : out[j].text = <<>> /\ ~IsNumbered(out[j])

C7_Witness ==
    /\ script = "check_csv_urls" /\ pc = "done"
    /\ stats[1].with_both = 1 /\ stats[2].with_skus = 1 /\ stats[2].with_urls = 0
    /\ stats[3].with_urls = 1 /\ stats[3].with_skus = 0

\* the sum of the numbers printed on the lines of out[1..k] that carry the label
RECURSIVE Printed(_, _)
Printed(label, k) ==
    IF k = 0 THEN 0
    ELSE (IF out[k].label = label THEN out[k].n ELSE 0) + Printed(label, k - 1)

\* C8 (as stated): the summary block holds the five counter lines of a per-source
\* report, the fifth being the rows with a SKU and no URL over all sources.
C8_FiveCounterLines ==
    (script = "check_csv_urls" /\ pc = "done") =>
        /\ Len(out) = SummaryAt + 5
        /\ out[SummaryAt + 5].n = Printed("Rows with SKU but missing URL: ", SummaryAt)

\* C8 (amended): the summary block holds four counter lines after its header:
\* total records, records with SKUs, with URLs, with both, each the sum of the
\* numbers the per-source reports printed; it has no line for SKU but missing URL.
C8_FourCounterLines ==
    (script = "check_csv_urls" /\ pc = "done") =>
        LET k == SummaryAt
        IN /\ Len(out) = k + 4
           /\ out[k + 1].label = "Total records across all CSVs: "
           /\ out[k + 1].n = Printed("Total rows: ", k)
           /\ out[k + 2].label = "Total records with SKUs: "
           /\ out[k + 2].n = Printed("Rows with SKUs: ", k)
           /\ out[k + 3].label = "Total records with URLs: "
           /\ out[k + 3].n = Printed("Rows with URLs: ", k)
           /\ out[k + 4].label = "Total records with both SKU and URL: "
           /\ out[k + 4].n = Printed("Rows with both SKU and URL: ", k)

C8_Witness ==
    /\ script = "check_csv_urls" /\ pc = "done"
    /\ Printed("Rows with SKU but missing URL: ", Len(out)) >= 2
    /\ Printed("Rows with URLs: ", Len(out)) >= 1

\* C9: a source that cannot be opened or decoded ends the run of check_csv_urls.py
\* at that source: nothing is printed for it after its 'Analyzing' line, no later
\* source is analysed, no summary is printed, and the reports of the earlier
\* sources stand; the summary is printed only after the three calls returned, in
\* the order APR, ARTEC, Bilstein; no file handle stays open on any exit path.
C9_Unavailable ==
    /\ script = "check_csv_urls" =>
          \A i \in 1..Len(Path) :
              (files[i].status /= "ok" /\ Analyzed(i)) =>
                  /\ ~HasSummary
                  /\ Len(stats) < i
                  /\ \A j \in (i + 1)..Len(Path) : ~Analyzed(j)
                  /\ \A k \in (AnalyzingAt(i) + 1)..Len(out) :
                        out[k].label \notin Range(CounterLabels)
                  /\ \A j \in 1..(i - 1) :
                        /\ Len(Body(j)) >= 5
                        /\ \A c \in 1..5 : Body(j)[c].label = CounterLabels[c]
                        /\ Body(j)[1].n = stats[j].total
    /\ (pc = "crashed" /\ err \in {"FileNotFoundError", "UnicodeDecodeError"}) =>
          /\ files[src].status /= "ok"
          /\ ~ENABLED Next
          /\ ~HasSummary
    /\ HasSummary =>
          /\ pc = "done" /\ Len(stats) = Len(Path)
          /\ \A i \in 1..Len(Path) : Analyzed(i)
          /\ AnalyzingAt(1) < AnalyzingAt(2) /\ AnalyzingAt(2) < AnalyzingAt(3)
          /\ AnalyzingAt(3) < SummaryAt
    /\ handles \subseteq {src}
    /\ pc \in {"main", "open", "done", "crashed"} => handles = {}

C9_Witness ==
    /\ script = "check_csv_urls" /\ pc = "crashed" /\ err = "UnicodeDecodeError"
    /\ src = 2 /\ pos = 1 /\ Len(stats) = 1 /\ stats[1].total = 1

\* C10: what analyze_csv returns and prints for a source depends on the rows of
\* that source only: two sources with the same content get the same dict and the
\* same report, whatever was analysed before them.
C10_OwnRowsOnly ==
    script = "check_csv_urls" =>
        \A i \in 1..Len(stats) : \A j \in 1..Len(stats) :
            files[i] = files[j] => stats[i] = stats[j] /\ Body(i) = Body(j)

C10_Witness ==
    /\ script = "check_csv_urls" /\ Len(stats) = 2
    /\ files[1] = files[2] /\ Len(missing_url_skus) = 1

====
